---- MODULE Spec2Model ----
(***************************************************************************)
(* Model of the execution-safety pipeline of the online code editor:       *)
(*   - RateLimiter            (rateLimiter.js, src/unnamed/part_003)       *)
(*   - runCode / worker glue  (packages/react-app/src/App.jsx)             *)
(*   - executeSecureCode      (packages/react-app/src/security.js)         *)
(*   - the code worker        (codeWorker.js, src/unnamed/part_002)        *)
(*                                                                         *)
(* Time is in milliseconds.  SpecRL drives the limiter alone with every    *)
(* method on several identifiers; Spec drives the application, which calls *)
(* the limiter from runCode; SpecV calls validateCode alone, SpecE calls   *)
(* executeSecureCode alone, and SpecLive is the application with run       *)
(* requests at any time and timers that fire.                              *)
(***************************************************************************)
EXTENDS Integers, Sequences, FiniteSets, TLC

(***************************************************************************)
(* Bounds of the model                                                     *)
(***************************************************************************)
\* constructor arguments of the limiter instance (new RateLimiter(N, W))
maxRequests == 2
windowMs == 2
\* the clock of SpecRL stops here
MaxTime == 3
\* isAllowed calls recorded per identifier in SpecRL
MaxCalls == maxRequests + 1
\* runs of runCode in Spec
MaxRuns == maxRequests + 1

\* the longest text given to validateCode in SpecV, in fragments
MaxLen == 2
\* direct calls of executeSecureCode in SpecE
MaxDirectCalls == 2
\* runCode calls turned away by the isExecuting guard that SpecLive counts
MaxIgnoredRuns == 1
\* runs of runCode in SpecLive
MaxLiveRuns == 2

(***************************************************************************)
(* Program constants                                                       *)
(***************************************************************************)
\* setTimeout(..., 6500) of runCode
OuterTimeoutMs == 6500
\* timeout: 5000 sent to the worker and given to executeSecureCode
WorkerTimeoutMs == 5000
\* resolvedTimeout + 250 of executeSecureCode
TerminationBufferMs == 250
\* timeout = 5000, the default of the parameter of executeSecureCode
DefaultTimeoutMs == 5000

Identifiers == {"u1", "u2"}

VARIABLES
  now,          \* Date.now()
  requests,     \* RateLimiter.requests : Map identifier -> timestamps
  cleanupTimer, \* RateLimiter.cleanupTimer is set
  last,         \* the last limiter call: method, argument, result, state before
  callLog,      \* per identifier, the isAllowed calls since its last reset
  solo,         \* per identifier, a limiter that received only its calls
  isExecuting,  \* App state isExecuting
  output,       \* App state output (what setOutput was last given)
  result,       \* App state result
  securityWarnings,     \* App state securityWarnings
  workerRef,            \* workerRef.current: a worker or NoWorker
  executionTimeoutRef,  \* executionTimeoutRef.current and the timer it names
  sanitizedCode,        \* the text captured by fallbackExecute of the run
  workers,      \* every Worker created so far, in creation order
  runs,         \* number of runs started (the current submission)
  log,          \* what the current submission did, in order
  outcomes,     \* per submission, the terminal outcomes produced for it
  dispatchedAt, \* when the current submission was handed to a worker, or -1
  patternLastIndex,  \* the lastIndex of each of the DANGEROUS_PATTERNS
  vText,        \* the text of the latest direct call of validateCode
  vReturned,    \* what that call returned
  vCall,        \* that call: "none" yet, a "repeat" of the text before, or "other"
  directCalls,  \* the calls of executeSecureCode made by a caller other than App
  ignoredRuns   \* runCode calls that returned at once because isExecuting was set

rlVars == <<now, requests, cleanupTimer, last, callLog, solo>>

appVars == <<isExecuting, output, result, securityWarnings, workerRef,
             executionTimeoutRef, sanitizedCode, workers, runs, log, outcomes,
             dispatchedAt>>

\* the record of the direct calls of validateCode and executeSecureCode, and
\* of the runCode calls that returned at once
callVars == <<vText, vReturned, vCall, directCalls, ignoredRuns>>

vars == <<now, requests, cleanupTimer, last, callLog, solo,
          isExecuting, output, result, securityWarnings, workerRef,
          executionTimeoutRef, sanitizedCode, workers, runs, log, outcomes,
          dispatchedAt, patternLastIndex, vText, vReturned, vCall,
          directCalls, ignoredRuns>>

(***************************************************************************)
(* Map helpers                                                             *)
(***************************************************************************)
EmptyMap == [x \in {} |-> <<>>]

\* this.requests.get(identifier) || []
MapGet(reqs, id) == IF id \in DOMAIN reqs THEN reqs[id] ELSE <<>>

\* this.requests.set(identifier, value)
MapSet(reqs, id, v) == [x \in (DOMAIN reqs) \cup {id} |-> IF x = id THEN v ELSE reqs[x]]

\* this.requests.delete(identifier)
MapDelete(reqs, id) == [x \in (DOMAIN reqs) \ {id} |-> reqs[x]]

Max(a, b) == IF a >= b THEN a ELSE b

(***************************************************************************)
(* RateLimiter methods, as functions of the map and of Date.now()          *)
(***************************************************************************)
\* the filter keeping a timestamp that is exactly windowMs old
ValidRequests_inclusive(timestamps, t) ==
  SelectSeq(timestamps, LAMBDA ts : t - ts <= windowMs)

\* userRequests.filter(timestamp => now - timestamp < this.windowMs)
ValidRequests(timestamps, t) == SelectSeq(timestamps, LAMBDA ts : t - ts < windowMs)

\* isAllowed with the test inverted to > (one request too many)
IsAllowedCall_offByOne(reqs, id, t) ==
  LET validRequests == ValidRequests(MapGet(reqs, id), t) IN
  IF Len(validRequests) > maxRequests
    THEN [ret |-> FALSE, map |-> reqs]
    ELSE [ret |-> TRUE, map |-> MapSet(reqs, id, Append(validRequests, t))]

\* isAllowed recording the request before the limit test
IsAllowedCall_recordsDenied(reqs, id, t) ==
  LET validRequests == ValidRequests(MapGet(reqs, id), t) IN
  IF Len(validRequests) >= maxRequests
    THEN [ret |-> FALSE, map |-> MapSet(reqs, id, Append(validRequests, t))]
    ELSE [ret |-> TRUE, map |-> MapSet(reqs, id, Append(validRequests, t))]

\* isAllowed pushing the timestamp of an allowed request twice
IsAllowedCall_chargesTwice(reqs, id, t) ==
  LET validRequests == ValidRequests(MapGet(reqs, id), t) IN
  IF Len(validRequests) >= maxRequests
    THEN [ret |-> FALSE, map |-> reqs]
    ELSE [ret |-> TRUE, map |-> MapSet(reqs, id, validRequests \o <<t, t>>)]

\* isAllowed(identifier): the value returned and the map left behind
IsAllowedCall(reqs, id, t) ==
  LET validRequests == ValidRequests(MapGet(reqs, id), t) IN
  IF Len(validRequests) >= maxRequests
    THEN [ret |-> FALSE, map |-> reqs]
    ELSE [ret |-> TRUE, map |-> MapSet(reqs, id, Append(validRequests, t))]

\* getRemaining storing the pruned list back
GetRemainingCall_destructive(reqs, id, t) ==
  LET validRequests == ValidRequests(MapGet(reqs, id), t) IN
  [ret |-> Max(0, maxRequests - Len(validRequests)),
   map |-> MapSet(reqs, id, validRequests)]

\* getRemaining(identifier): the value returned and the map left behind
GetRemainingCall(reqs, id, t) ==
  LET validRequests == ValidRequests(MapGet(reqs, id), t) IN
  [ret |-> Max(0, maxRequests - Len(validRequests)), map |-> reqs]

\* reset dropping every identifier
ResetPost_clearsAll(reqs, id) == EmptyMap

\* reset(identifier)
ResetPost(reqs, id) == MapDelete(reqs, id)

\* cleanup keeping the unpruned list of a live identifier
CleanupEntry_keepsStale(reqs, id, t) ==
  LET validRequests == ValidRequests(reqs[id], t) IN
  IF Len(validRequests) = 0
    THEN MapDelete(reqs, id)
    ELSE reqs

\* one iteration of the loop of cleanup()
CleanupEntry(reqs, id, t) ==
  LET validRequests == ValidRequests(reqs[id], t) IN
  IF Len(validRequests) = 0
    THEN MapDelete(reqs, id)
    ELSE MapSet(reqs, id, validRequests)

\* cleanup(): the loop over this.requests.entries()
RECURSIVE CleanupLoop(_, _, _)
CleanupLoop(todo, reqs, t) ==
  IF todo = {} THEN reqs
  ELSE LET id == CHOOSE x \in todo : TRUE
       IN CleanupLoop(todo \ {id}, CleanupEntry(reqs, id, t), t)

CleanupPost(reqs, t) == CleanupLoop(DOMAIN reqs, reqs, t)

(***************************************************************************)
(* Record of the last limiter call                                         *)
(***************************************************************************)
NoCall ==
  [op |-> "none", id |-> "", at |-> 0, before |-> EmptyMap,
   allowed |-> FALSE, remaining |-> 0, soloAllowed |-> FALSE, soloRemaining |-> 0]

Call(op, id, allowed, remaining, soloAllowed, soloRemaining) ==
  [op |-> op, id |-> id, at |-> now, before |-> requests,
   allowed |-> allowed, remaining |-> remaining,
   soloAllowed |-> soloAllowed, soloRemaining |-> soloRemaining]

(***************************************************************************)
(* Submitted texts.  A text is a sequence of source fragments; the string  *)
(* it stands for is their concatenation, and the empty sequence is ''.     *)
(***************************************************************************)
LogSum == "console.log(2+2);"
EvalCall == "eval('1');"
TrueLoop == "while(true){}"
ThrowStmt == "throw new Error('x');"
LateThrow == "queueMicrotask(()=>{throw new Error('late')});"
CloseCall == "close();"
WindowRef == "window.name;"
FetchCall == "fetch('/x');"
StorageRef == "localStorage.length;"
ProtoAssign == "o.__proto__ = {};"
CtorChainAssign == "o.constructor.prototype.x = 1;"
NulByte == "\\0"
EvalNul == "ev\\0al('1');"
LogMarkup == "console.log('<b>&\"' + \"'\"); return '<i>';"

\* the texts the user submits in Spec
Codes ==
  {<<>>, <<LogMarkup>>, <<EvalCall>>, <<TrueLoop>>, <<LateThrow>>, <<CloseCall>>}

(***************************************************************************)
(* Values that travel as messages and outputs.  A string is the sequence   *)
(* of its pieces: each of the characters & < > " ' is a piece of its own,  *)
(* any other piece is a run of characters without those five.  '' is <<>>. *)
(* No piece is empty, which sets null and undefined apart from strings.    *)
(***************************************************************************)
Null == <<"", "null">>
Undefined == <<"", "undefined">>

\* JavaScript truthiness of a string-or-null value
Truthy(v) == v \notin {Null, Undefined, <<>>}

\* `${v}` in a template literal
Str(v) ==
  IF v = Undefined THEN <<"undefined">> ELSE IF v = Null THEN <<"null">> ELSE v

(***************************************************************************)
(* security.js: escapeHtml, sanitizeOutput                                 *)
(***************************************************************************)
\* the characters /[&<>"']/g matches
Special == {"&", "<", ">", "\"", "'"}

\* an escaping that leaves the apostrophe alone
map_withoutApostrophe(m) ==
  CASE m = "&" -> <<"&", "amp;">>
    [] m = "<" -> <<"&", "lt;">>
    [] m = ">" -> <<"&", "gt;">>
    [] m = "\"" -> <<"&", "quot;">>
    [] m = "'" -> <<"'">>

\* map[m]: the entity written for a matched character, as the & that opens
\* it and the rest
map(m) ==
  CASE m = "&" -> <<"&", "amp;">>
    [] m = "<" -> <<"&", "lt;">>
    [] m = ">" -> <<"&", "gt;">>
    [] m = "\"" -> <<"&", "quot;">>
    [] m = "'" -> <<"&", "#039;">>

\* String(text).replace(/[&<>"']/g, m => map[m])
RECURSIVE escapeHtml(_)
escapeHtml(text) ==
  IF text = <<>> THEN <<>>
  ELSE (IF Head(text) \in Special THEN map(Head(text)) ELSE <<Head(text)>>)
       \o escapeHtml(Tail(text))

\* sanitizeOutput(value): a string is escaped, null is an object and is
\* escaped as JSON.stringify writes it, undefined goes through String()
sanitizeOutput(value) ==
  IF value = Undefined THEN <<"undefined">>
  ELSE IF value = Null THEN escapeHtml(<<"null">>)
  ELSE escapeHtml(value)

(***************************************************************************)
(* security.js: validateCode, sanitizeCode                                 *)
(***************************************************************************)
\* the entries of DANGEROUS_PATTERNS the fragments of the model come near, in
\* declaration order, named by the construct they look for
DANGEROUS_PATTERNS ==
  <<"eval(", "Function(", "window", "fetch(", "localStorage", ".__proto__ =",
    ".constructor =", "Object.prototype", "postMessage(">>

\* the entries of DANGEROUS_FUNCTIONS a fragment of the model can call
DANGEROUS_FUNCTIONS ==
  <<"eval", "Function", "fetch", "localStorage", "window", "postMessage">>

\* a match of the pattern inside one fragment
PatternMatches(pattern, fragment) ==
  \/ pattern = "eval(" /\ fragment = EvalCall
  \/ pattern = "window" /\ fragment = WindowRef
  \/ pattern = "fetch(" /\ fragment = FetchCall
  \/ pattern = "localStorage" /\ fragment = StorageRef
  \/ pattern = ".__proto__ =" /\ fragment = ProtoAssign

\* a match of new RegExp(`\\b${func}\\s*\\(`, 'gi') inside one fragment
FunctionMatches(func, fragment) ==
  \/ func = "eval" /\ fragment = EvalCall
  \/ func = "fetch" /\ fragment = FetchCall

\* /\.__proto__|\.constructor\[|Object\.prototype|Array\.prototype/.test(fragment)
PollutionMatches(fragment) == fragment = ProtoAssign

\* /while\s*\(\s*true\s*\)|for\s*\(\s*;\s*;\s*\)|.../.test(fragment)
LoopMatches(fragment) == fragment = TrueLoop

\* the lastIndex of the DANGEROUS_PATTERNS when the module is loaded
FreshPatternIndex == [k \in 1..Len(DANGEROUS_PATTERNS) |-> 0]

\* a validator that keeps the scan position of the previous call
ResetLastIndex_missing(li) == li

\* pattern.lastIndex = 0
ResetLastIndex(li) == 0

\* a pattern that only matches right at lastIndex (flag y instead of g)
PatternTest_sticky(pattern, code, li) ==
  IF li + 1 <= Len(code) /\ PatternMatches(pattern, code[li + 1])
    THEN [found |-> TRUE, lastIndex |-> li + 1]
    ELSE [found |-> FALSE, lastIndex |-> 0]

\* pattern.test(code) of a /g pattern whose lastIndex is li: the search starts
\* after fragment li, and lastIndex is left after the match, or 0 on failure
PatternTest(pattern, code, li) ==
  LET hits == {i \in (li + 1)..Len(code) : PatternMatches(pattern, code[i])} IN
  IF hits = {}
    THEN [found |-> FALSE, lastIndex |-> 0]
    ELSE [found |-> TRUE, lastIndex |-> CHOOSE i \in hits : \A j \in hits : i <= j]

\* DANGEROUS_PATTERNS.forEach(...): the errors, listed as (message, signature)
\* pairs, and the lastIndex the patterns are left with
RECURSIVE PatternScan(_, _, _)
PatternScan(k, code, lastIndex) ==
  IF k > Len(DANGEROUS_PATTERNS) THEN [errors |-> <<>>, lastIndex |-> lastIndex]
  ELSE LET t == PatternTest(DANGEROUS_PATTERNS[k], code, ResetLastIndex(lastIndex[k]))
           rest == PatternScan(k + 1, code, [lastIndex EXCEPT ![k] = t.lastIndex])
       IN [errors |-> (IF t.found
                         THEN <<"Dangerous pattern detected", DANGEROUS_PATTERNS[k]>>
                         ELSE <<>>) \o rest.errors,
           lastIndex |-> rest.lastIndex]

\* DANGEROUS_FUNCTIONS.forEach(...): each call builds its own RegExp
RECURSIVE FunctionScan(_, _)
FunctionScan(k, code) ==
  IF k > Len(DANGEROUS_FUNCTIONS) THEN <<>>
  ELSE (IF \E i \in 1..Len(code) : FunctionMatches(DANGEROUS_FUNCTIONS[k], code[i])
          THEN <<"Dangerous function call detected", DANGEROUS_FUNCTIONS[k]>>
          ELSE <<>>)
       \o FunctionScan(k + 1, code)

\* a validator for which a warning blocks like an error
IsValid_noWarnings(errors, warnings) == errors = <<>> /\ warnings = <<>>

\* valid: errors.length === 0
IsValid(errors, warnings) == errors = <<>>

\* validateCode(code) when the patterns' lastIndex is lastIndex: what it
\* returns and the lastIndex it leaves.  The texts of the model are shorter
\* than 10000 characters and have at most 50 braces.
ValidateCall(code, lastIndex) ==
  IF code = <<>>
    THEN [valid |-> FALSE, errors |-> <<"Code must be a non-empty string">>,
          warnings |-> <<>>, lastIndex |-> lastIndex]
    ELSE
      LET scan == PatternScan(1, code, lastIndex)
          errors ==
            scan.errors
            \o FunctionScan(1, code)
            \o (IF \E i \in 1..Len(code) : PollutionMatches(code[i])
                  THEN <<"Prototype pollution attempt detected">> ELSE <<>>)
          warnings ==
            IF \E i \in 1..Len(code) : LoopMatches(code[i])
              THEN <<"Potential infinite loop detected">> ELSE <<>>
      IN [valid |-> IsValid(errors, warnings), errors |-> errors,
          warnings |-> warnings, lastIndex |-> scan.lastIndex]

\* what validateCode(code) returns
Returned(call) ==
  [valid |-> call.valid, errors |-> call.errors, warnings |-> call.warnings]

\* validateCode(code) on freshly loaded patterns
validateCode(code) == Returned(ValidateCall(code, FreshPatternIndex))

\* fragment.replace(/\0/g, ''); only NulByte and EvalNul hold a null byte
StripNul(fragment) == IF fragment = EvalNul THEN EvalCall ELSE fragment

\* sanitizeCode(code): code.replace(/\0/g, '')
sanitizeCode(code) ==
  SelectSeq([i \in 1..Len(code) |-> StripNul(code[i])], LAMBDA f : f # NulByte)

(***************************************************************************)
(* codeWorker.js: the deny-list scan and the evaluation of the guest text  *)
(***************************************************************************)
\* BLOCKED_PATTERNS, in declaration order
BLOCKED_PATTERNS ==
  <<"eval(", "Function(", "window", "document", "fetch(", "XMLHttpRequest",
    "require(", "import ", "postMessage(", "close(", "importScripts(">>

BlockedMatches(pattern, fragment) ==
  \/ pattern = "eval(" /\ fragment = EvalCall
  \/ pattern = "close(" /\ fragment = CloseCall

FreshLastIndex == [k \in 1..Len(BLOCKED_PATTERNS) |-> 0]

\* pattern.test(code) of a /g pattern whose lastIndex is li: the search starts
\* after fragment li, and lastIndex is left after the match, or 0 on failure
RegexTest(pattern, code, li) ==
  LET hits == {i \in (li + 1)..Len(code) : BlockedMatches(pattern, code[i])} IN
  IF hits = {}
    THEN [found |-> FALSE, lastIndex |-> 0]
    ELSE [found |-> TRUE, lastIndex |-> CHOOSE i \in hits : \A j \in hits : i <= j]

\* for (const pattern of BLOCKED_PATTERNS) if (pattern.test(code)) ... return
RECURSIVE BlockedScan(_, _, _)
BlockedScan(k, code, lastIndex) ==
  IF k > Len(BLOCKED_PATTERNS) THEN [blocked |-> FALSE, lastIndex |-> lastIndex]
  ELSE LET t == RegexTest(BLOCKED_PATTERNS[k], code, lastIndex[k])
           li == [lastIndex EXCEPT ![k] = t.lastIndex]
       IN IF t.found THEN [blocked |-> TRUE, lastIndex |-> li]
          ELSE BlockedScan(k + 1, code, li)

\* the names runner binds from the context: const X = sandbox.X
ContextNames ==
  {"console", "Math", "Number", "String", "Array", "Object", "Date", "JSON",
   "RegExp", "Boolean", "Error", "TypeError", "ReferenceError", "SyntaxError",
   "parseInt", "parseFloat", "isNaN", "isFinite", "Infinity", "NaN"}

\* names the global scope of a dedicated worker binds
WorkerGlobalNames == {"queueMicrotask", "close", "navigator", "self"}

\* the free identifiers of a statement
FreeNames(fragment) ==
  CASE fragment = LogSum -> {"console"}
    [] fragment = LogMarkup -> {"console"}
    [] fragment = ThrowStmt -> {"Error"}
    [] fragment = LateThrow -> {"queueMicrotask", "Error"}
    [] fragment = CloseCall -> {"close"}
    [] OTHER -> {}

\* where the function new Function('sandbox', ...) returns finds a free
\* identifier: in the const bindings of runner, else in the global scope
Resolve(name) ==
  IF name \in ContextNames THEN "context"
  ELSE IF name \in WorkerGlobalNames THEN "global"
  ELSE "none"

\* what evaluating the guest text in runner(context) does: the statements run
\* in order until one throws, never ends, or closes the worker; a statement
\* with an identifier that resolves nowhere throws a ReferenceError
RECURSIVE Evaluate(_, _, _)
Evaluate(code, k, acc) ==
  IF k > Len(code) THEN [acc EXCEPT !.how = "returns"]
  ELSE IF \E name \in FreeNames(code[k]) : Resolve(name) = "none"
         THEN [acc EXCEPT !.how = "throws", !.message = <<"name is not defined">>]
  ELSE LET at == [acc EXCEPT !.reached = @ \cup FreeNames(code[k])] IN
  IF code[k] = ThrowStmt
         THEN [at EXCEPT !.how = "throws", !.message = <<"x">>]
  ELSE IF code[k] = LogMarkup
         THEN [at EXCEPT !.output = <<"<", "b", ">", "&", "\"", "'">>,
                         !.result = <<"<", "i", ">">>]
  ELSE IF code[k] = TrueLoop THEN [at EXCEPT !.how = "hangs"]
  ELSE IF code[k] = CloseCall
         THEN Evaluate(code, k + 1, [at EXCEPT !.closes = TRUE])
  ELSE IF code[k] = LateThrow
         THEN Evaluate(code, k + 1, [at EXCEPT !.late = TRUE])
  ELSE IF code[k] = LogSum
         THEN Evaluate(code, k + 1, [at EXCEPT !.output = <<"4">>])
  ELSE Evaluate(code, k + 1, at)

Guest(code) ==
  Evaluate(code, 1, [how |-> "returns", output |-> <<>>, result |-> <<>>,
                     message |-> <<>>, late |-> FALSE, closes |-> FALSE,
                     reached |-> {}])

(***************************************************************************)
(* Workers, messages, timers, outcomes                                     *)
(***************************************************************************)
userIdentifier == "u1"

NoWorker == 0

\* executionTimeoutRef.current === null
NoTimer == [set |-> FALSE, armed |-> FALSE, deadline |-> 0]

\* a Worker: who created it ("app": initializeWorker, "exec":
\* executeSecureCode), the state of its thread, the messages on their way in
\* and out, the lastIndex of its BLOCKED_PATTERNS, and for "exec" the
\* closure of the promise (settled, timerId); timeoutId is the deadline of
\* the timer the worker armed for the evaluation it is in (-1: none) and
\* armedMs the delay it armed that timer with, and errored tells that the
\* onerror handler of its creator has run for it
NewWorker(owner) ==
  [owner |-> owner, failed |-> FALSE, started |-> FALSE,
   hung |-> FALSE, closed |-> FALSE, inbox |-> <<>>, outbox |-> <<>>,
   lastIndex |-> FreshLastIndex, settled |-> FALSE, timer |-> -1, sub |-> 0,
   timeoutId |-> -1, armedMs |-> -1, errored |-> FALSE]

\* worker.terminate(): the thread stops, the queued messages are dropped and
\* nothing refers to the worker any more, so it leaves the sequence
Terminate(wkrs, w) ==
  [i \in 1..(Len(wkrs) - 1) |-> IF i < w THEN wkrs[i] ELSE wkrs[i + 1]]

\* where workerRef.current points after Terminate(wkrs, w)
RefAfterTerminate(ref, w) ==
  IF ref = w THEN NoWorker ELSE IF ref > w THEN ref - 1 ELSE ref

\* worker.postMessage({ code, timeout }); sub is the submission it belongs to
Request(code, timeout, sub) == [code |-> code, timeout |-> timeout, sub |-> sub]

PostMessage(wkrs, w, req) == [wkrs EXCEPT ![w].inbox = Append(@, req)]

\* an event on its way from a worker to the handlers of its creator
MessageEvent(data, sub) ==
  [type |-> "message", data |-> data, message |-> Undefined, sub |-> sub]
ErrorEvent(sub, message) ==
  [type |-> "error",
   data |-> [result |-> Undefined, output |-> Undefined, error |-> Undefined],
   message |-> message, sub |-> sub]

\* the fixed texts of App.jsx, security.js and the browser
RateLimitText ==
  <<"Rate limit exceeded. Please wait before running code again. Remaining requests: ">>
ValidationFailedText == <<"Security Error: Code validation failed.", "\n">>
NoOutput == <<"(No output)">>
TimeoutMessage == <<"Code execution timeout exceeded">>
\* the message of the error new Worker(...) throws where there is no Worker
WorkerCtorError == <<"Worker is not defined">>
\* the message of the DataCloneError postMessage throws
PostMessageError ==
  <<"Failed to execute ", "'", "postMessage", "'", " on ", "'", "Worker", "'">>
\* the message of the error event for an error thrown outside a handler
UncaughtMessage == <<"Uncaught Error: late">>

\* what setOutput is given: the kind of message, its text, and the error
\* list or the remaining quota it carries
Out(kind, text, errors, remaining) ==
  [kind |-> kind, text |-> text, errors |-> errors, remaining |-> remaining]

\* one step of a submission
Ev(name, ok, errors, n) == [ev |-> name, ok |-> ok, errors |-> errors, n |-> n]
E(name) == Ev(name, TRUE, <<>>, 0)
OutcomeEv(kind, errors, n) == Ev(kind, FALSE, errors, n)

\* one more terminal outcome for submission sub
AddOutcome(outs, sub) ==
  IF sub \in 1..Len(outs) THEN [outs EXCEPT ![sub] = @ + 1] ELSE outs

\* the submission a worker event ends: the one whose request caused it, else
\* the one that is executing when it is delivered
EndedBy(ev) == IF ev.sub # 0 THEN ev.sub ELSE IF isExecuting THEN runs ELSE 0

LogIf(cond, lg, evs) == IF cond THEN lg \o evs ELSE lg

\* timers of executeSecureCode that are never armed
PendingDeadlines_outerOnly ==
  IF executionTimeoutRef.armed THEN {executionTimeoutRef.deadline} ELSE {}

\* the timers that are armed
PendingDeadlines ==
  (IF executionTimeoutRef.armed THEN {executionTimeoutRef.deadline} ELSE {})
  \cup {workers[w].timer : w \in {x \in 1..Len(workers) : workers[x].timer >= 0}}

(***************************************************************************)
(* security.js: executeSecureCode                                          *)
(***************************************************************************)
\* a timer of executeSecureCode that is due only after the one of runCode
ExecDeadline_late(t, resolvedTimeout) == t + resolvedTimeout + OuterTimeoutMs

\* setTimeout(..., resolvedTimeout + 250) at time t
ExecDeadline(t, resolvedTimeout) == t + resolvedTimeout + TerminationBufferMs

\* executeSecureCode(code, timeout) called at time t: the workers afterwards,
\* whether the promise is already rejected, and with which message
ExecuteSecureCode(wkrs, code, timeout, t, canCreate, sendOk, sub, lastIndex) ==
  LET validation == ValidateCall(code, lastIndex)
      resolvedTimeout == Max(0, timeout)
      w == Len(wkrs) + 1
      created == Append(wkrs, [NewWorker("exec") EXCEPT
                                 !.timer = ExecDeadline(t, resolvedTimeout),
                                 !.sub = sub])
  IN
  IF ~ validation.valid
    THEN [lastIndex |-> validation.lastIndex, workers |-> wkrs, rejected |-> TRUE, message |-> <<"Code validation failed: ">> \o validation.errors,
          events |-> <<E("executeSecureCode"), Ev("validateAgain", FALSE, validation.errors, 0)>>]
  ELSE IF ~ canCreate
    THEN [lastIndex |-> validation.lastIndex, workers |-> wkrs, rejected |-> TRUE, message |-> <<"Secure worker not available: ">> \o WorkerCtorError,
          events |-> <<E("executeSecureCode"), Ev("validateAgain", TRUE, <<>>, 0)>>]
  ELSE IF ~ sendOk
    THEN [lastIndex |-> validation.lastIndex, workers |-> Terminate(created, w),
          rejected |-> TRUE, message |-> <<"Failed to start worker: ">> \o PostMessageError,
          events |-> <<E("executeSecureCode"), Ev("validateAgain", TRUE, <<>>, 0),
                       E("newWorker")>>]
  ELSE [lastIndex |-> validation.lastIndex, workers |-> PostMessage(created, w, Request(code, resolvedTimeout, sub)),
        rejected |-> FALSE, message |-> <<>>,
        events |-> <<E("executeSecureCode"), Ev("validateAgain", TRUE, <<>>, 0),
                     E("newWorker"), E("armExecTimer"), E("postMessageExec")>>]

(***************************************************************************)
(* App.jsx: fallbackExecute                                                *)
(***************************************************************************)
\* the values a handler has reached when it hands over to fallbackExecute
Mid(wkrs, timer, out, res, warns, lg, outs, lastIndex) ==
  [workers |-> wkrs, timer |-> timer, output |-> out, result |-> res,
   warnings |-> warns, log |-> lg, outcomes |-> outs, lastIndex |-> lastIndex]

\* fallbackExecute(): it awaits executeSecureCode; when that is rejected at
\* once, catch and finally run before anything else can happen
FallbackExecute(mid, code, sub, canCreate, sendOk) ==
  LET x == ExecuteSecureCode(mid.workers, code, WorkerTimeoutMs, now,
                             canCreate, sendOk, sub, mid.lastIndex)
      lg == mid.log \o <<E("fallbackExecute")>> \o x.events
  IN
  /\ workers' = x.workers
  /\ patternLastIndex' = x.lastIndex
  /\ securityWarnings' = mid.warnings
  /\ IF x.rejected
       THEN /\ output' = Out("FallbackError",
                              sanitizeOutput(<<"Error: ">> \o x.message), <<>>, 0)
            /\ result' = <<>>
            /\ executionTimeoutRef' = NoTimer
            /\ isExecuting' = FALSE
            /\ outcomes' = AddOutcome(mid.outcomes, sub)
            /\ log' = lg \o <<OutcomeEv("FallbackError", <<>>, 0)>>
       ELSE /\ output' = mid.output
            /\ result' = mid.result
            /\ executionTimeoutRef' = mid.timer
            /\ isExecuting' = TRUE
            /\ outcomes' = mid.outcomes
            /\ log' = lg

(***************************************************************************)
(* Initial states                                                          *)
(***************************************************************************)
\* security.js after module load, and no direct call of validateCode or
\* executeSecureCode yet; no runCode call was turned away yet
InitValidator ==
  /\ patternLastIndex = FreshPatternIndex
  /\ vText = <<>>
  /\ vReturned = validateCode(<<>>)
  /\ vCall = "none"
  /\ directCalls = <<>>
  /\ ignoredRuns = 0

\* the singleton limiter after module load
InitLimiter ==
  /\ now = 0
  /\ requests = EmptyMap
  /\ cleanupTimer = TRUE            \* rateLimiter.startCleanup() at load
  /\ last = NoCall
  /\ callLog = [id \in Identifiers |-> <<>>]
  /\ solo = [id \in Identifiers |-> EmptyMap]

\* App after its mount effect ran initializeWorker(); new Worker may throw
InitApp ==
  /\ isExecuting = FALSE
  /\ output = Out("None", <<>>, <<>>, 0)
  /\ result = <<>>
  /\ securityWarnings = <<>>
  /\ executionTimeoutRef = NoTimer
  /\ sanitizedCode = <<>>
  /\ \E canCreate \in BOOLEAN :
       IF canCreate
         THEN workers = <<NewWorker("app")>> /\ workerRef = 1
         ELSE workers = <<>> /\ workerRef = NoWorker
  /\ runs = 0
  /\ log = <<>>
  /\ outcomes = <<>>
  /\ dispatchedAt = -1

\* the limiter on its own: no App is mounted
InitRL ==
  /\ InitLimiter
  /\ InitValidator
  /\ isExecuting = FALSE
  /\ output = Out("None", <<>>, <<>>, 0)
  /\ result = <<>>
  /\ securityWarnings = <<>>
  /\ executionTimeoutRef = NoTimer
  /\ sanitizedCode = <<>>
  /\ workers = <<>>
  /\ workerRef = NoWorker
  /\ runs = 0
  /\ log = <<>>
  /\ outcomes = <<>>
  /\ dispatchedAt = -1

Init == InitLimiter /\ InitApp /\ InitValidator

(***************************************************************************)
(* Limiter actions (SpecRL)                                                *)
(***************************************************************************)
\* a millisecond passes
Tick ==
  /\ now < MaxTime
  /\ now' = now + 1
  /\ UNCHANGED <<requests, cleanupTimer, last, callLog, solo>>
  /\ UNCHANGED appVars
  /\ UNCHANGED <<patternLastIndex, vText, vReturned, vCall, directCalls, ignoredRuns>>

\* rateLimiter.isAllowed(id)
IsAllowed(id) ==
  /\ Len(callLog[id]) < MaxCalls
  /\ requests' = IsAllowedCall(requests, id, now).map
  /\ solo' = [solo EXCEPT ![id] = IsAllowedCall(solo[id], id, now).map]
  /\ last' = Call("isAllowed", id, IsAllowedCall(requests, id, now).ret, 0,
                  IsAllowedCall(solo[id], id, now).ret, 0)
  /\ callLog' = [callLog EXCEPT ![id] =
                   Append(@, [t |-> now, ret |-> IsAllowedCall(requests, id, now).ret])]
  /\ UNCHANGED <<now, cleanupTimer>>
  /\ UNCHANGED appVars
  /\ UNCHANGED <<patternLastIndex, vText, vReturned, vCall, directCalls, ignoredRuns>>

\* rateLimiter.getRemaining(id)
GetRemaining(id) ==
  /\ requests' = GetRemainingCall(requests, id, now).map
  /\ solo' = [solo EXCEPT ![id] = GetRemainingCall(solo[id], id, now).map]
  /\ last' = Call("getRemaining", id, FALSE, GetRemainingCall(requests, id, now).ret,
                  FALSE, GetRemainingCall(solo[id], id, now).ret)
  /\ UNCHANGED <<now, cleanupTimer, callLog>>
  /\ UNCHANGED appVars
  /\ UNCHANGED <<patternLastIndex, vText, vReturned, vCall, directCalls, ignoredRuns>>

\* rateLimiter.reset(id)
Reset(id) ==
  /\ requests' = ResetPost(requests, id)
  /\ solo' = [solo EXCEPT ![id] = ResetPost(solo[id], id)]
  /\ callLog' = [callLog EXCEPT ![id] = <<>>]
  /\ last' = Call("reset", id, FALSE, 0, FALSE, 0)
  /\ UNCHANGED <<now, cleanupTimer>>
  /\ UNCHANGED appVars
  /\ UNCHANGED <<patternLastIndex, vText, vReturned, vCall, directCalls, ignoredRuns>>

\* the interval callback () => this.cleanup()
Cleanup ==
  /\ cleanupTimer
  /\ requests' = CleanupPost(requests, now)
  /\ solo' = [id \in Identifiers |-> CleanupPost(solo[id], now)]
  /\ last' = Call("cleanup", "", FALSE, 0, FALSE, 0)
  /\ UNCHANGED <<now, cleanupTimer, callLog>>
  /\ UNCHANGED appVars
  /\ UNCHANGED <<patternLastIndex, vText, vReturned, vCall, directCalls, ignoredRuns>>

\* rateLimiter.startCleanup()
StartCleanup ==
  /\ ~ cleanupTimer
  /\ cleanupTimer' = TRUE
  /\ UNCHANGED <<now, requests, last, callLog, solo>>
  /\ UNCHANGED appVars
  /\ UNCHANGED <<patternLastIndex, vText, vReturned, vCall, directCalls, ignoredRuns>>

\* rateLimiter.stopCleanup()
StopCleanup ==
  /\ cleanupTimer
  /\ cleanupTimer' = FALSE
  /\ UNCHANGED <<now, requests, last, callLog, solo>>
  /\ UNCHANGED appVars
  /\ UNCHANGED <<patternLastIndex, vText, vReturned, vCall, directCalls, ignoredRuns>>

NextRL ==
  \/ Tick
  \/ \E id \in Identifiers : IsAllowed(id)
  \/ \E id \in Identifiers : GetRemaining(id)
  \/ \E id \in Identifiers : Reset(id)
  \/ Cleanup
  \/ StartCleanup
  \/ StopCleanup

SpecRL == InitRL /\ [][NextRL]_vars

(***************************************************************************)
(* App.jsx: runCode                                                        *)
(***************************************************************************)
\* a run going on although isAllowed returned false
PassesRateGate_always(gate) == TRUE

\* if (!rateLimiter.isAllowed(userIdentifier)) { ... return; }
PassesRateGate(gate) == gate.ret

\* a run going on although validation failed
PassesValidation_always(validation) == TRUE

\* if (!validation.valid) { ... return; }
PassesValidation(validation) == validation.valid

\* a runCode that goes on whatever the flag says
Busy_never(flag) == FALSE

\* if (isExecuting) return;
Busy(flag) == flag

\* runCode() while isExecuting is set: it returns at once
RunCodeWhileExecuting ==
  /\ Busy(isExecuting)
  /\ ignoredRuns < MaxIgnoredRuns
  /\ ignoredRuns' = ignoredRuns + 1
  /\ UNCHANGED rlVars
  /\ UNCHANGED appVars
  /\ UNCHANGED <<patternLastIndex, vText, vReturned, vCall, directCalls>>

\* runCode() on the text code; canCreate: new Worker succeeds in
\* initializeWorker, sendOk: postMessage does not throw, canCreateExec: new
\* Worker succeeds in executeSecureCode
RunCode(code, canCreate, sendOk, canCreateExec) ==
  /\ ~ Busy(isExecuting)
  /\ runs < MaxRuns
  /\ LET sub == runs + 1
         gate == IsAllowedCall(requests, userIdentifier, now)
         outs0 == Append(outcomes, 0)
         validation == ValidateCall(code, patternLastIndex)
         sanitized == sanitizeCode(code)
         armed == [set |-> TRUE, armed |-> TRUE, deadline |-> now + OuterTimeoutMs]
         mustInit == workerRef = NoWorker
         wkrs1 == IF mustInit /\ canCreate
                    THEN Append(workers, NewWorker("app")) ELSE workers
         ref1 == IF mustInit
                   THEN (IF canCreate THEN Len(workers) + 1 ELSE NoWorker)
                   ELSE workerRef
         log1 == <<Ev("isAllowed", gate.ret, <<>>, 0),
                   Ev("validateCode", validation.valid, validation.errors, 0),
                   E("sanitizeCode"), E("armOuterTimer")>>
                 \o (IF mustInit THEN <<Ev("initializeWorker", canCreate, <<>>, 0)>>
                     ELSE <<>>)
         reachesWorker == PassesRateGate(gate) /\ PassesValidation(validation)
     IN
     \* an input that this run never consults is taken as TRUE
     /\ IF reachesWorker THEN TRUE ELSE canCreate /\ canCreateExec /\ sendOk
     /\ IF ref1 = NoWorker /\ ~ canCreateExec THEN sendOk ELSE TRUE
     /\ runs' = sub
     /\ requests' = gate.map
     /\ IF ~ PassesRateGate(gate) THEN
          LET remaining == GetRemainingCall(gate.map, userIdentifier, now).ret IN
          /\ output' = Out("RateLimitExceeded", sanitizeOutput(RateLimitText),
                            <<>>, remaining)
          /\ result' = <<>>
          /\ securityWarnings' = <<>>
          /\ isExecuting' = FALSE
          /\ executionTimeoutRef' = NoTimer
          /\ outcomes' = AddOutcome(outs0, sub)
          /\ log' = <<Ev("isAllowed", gate.ret, <<>>, 0),
                      Ev("getRemaining", TRUE, <<>>, remaining),
                      OutcomeEv("RateLimitExceeded", <<>>, remaining)>>
          /\ dispatchedAt' = -1
          /\ sanitizedCode' = <<>>
          /\ UNCHANGED <<workers, workerRef, patternLastIndex>>
        ELSE IF ~ PassesValidation(validation) THEN
          /\ output' = Out("ValidationFailed",
                            sanitizeOutput(ValidationFailedText \o validation.errors),
                            validation.errors, 0)
          /\ result' = <<>>
          /\ securityWarnings' = <<>>
          /\ isExecuting' = FALSE
          /\ executionTimeoutRef' = NoTimer
          /\ outcomes' = AddOutcome(outs0, sub)
          /\ log' = <<Ev("isAllowed", gate.ret, <<>>, 0),
                      Ev("validateCode", validation.valid, validation.errors, 0),
                      OutcomeEv("ValidationFailed", validation.errors, 0)>>
          /\ dispatchedAt' = -1
          /\ sanitizedCode' = <<>>
          /\ patternLastIndex' = validation.lastIndex
          /\ UNCHANGED <<workers, workerRef>>
        ELSE IF ref1 # NoWorker THEN
          /\ patternLastIndex' = validation.lastIndex
          /\ sanitizedCode' = sanitized
          /\ dispatchedAt' = now
          /\ result' = <<>>
          /\ securityWarnings' = validation.warnings
          /\ IF sendOk
               THEN /\ workers' = PostMessage(wkrs1, ref1,
                                     Request(sanitized, WorkerTimeoutMs, sub))
                    /\ workerRef' = ref1
                    /\ output' = Out("None", <<>>, <<>>, 0)
                    /\ isExecuting' = TRUE
                    /\ executionTimeoutRef' = armed
                    /\ outcomes' = outs0
                    /\ log' = log1 \o <<Ev("postMessage", TRUE, <<>>, 0)>>
               ELSE /\ workers' = wkrs1
                    /\ workerRef' = NoWorker
                    /\ output' = Out("WorkerFailed",
                                      sanitizeOutput(<<"Worker failed: ">>
                                                     \o PostMessageError),
                                      <<>>, 0)
                    /\ isExecuting' = FALSE
                    /\ executionTimeoutRef' = NoTimer
                    /\ outcomes' = AddOutcome(outs0, sub)
                    /\ log' = log1 \o <<Ev("postMessage", FALSE, <<>>, 0),
                                        OutcomeEv("WorkerFailed", <<>>, 0)>>
        ELSE
          /\ sanitizedCode' = sanitized
          /\ dispatchedAt' = now
          /\ workerRef' = NoWorker
          /\ FallbackExecute(
               Mid(wkrs1, armed, Out("None", <<>>, <<>>, 0), <<>>,
                   validation.warnings, log1, outs0, validation.lastIndex),
               sanitized, sub, canCreateExec, sendOk)
  /\ UNCHANGED <<now, cleanupTimer, last, callLog, solo>>
  /\ UNCHANGED callVars

\* the callback of setTimeout(..., 6500) of runCode
OuterTimeoutFires(canCreate, sendOk) ==
  /\ executionTimeoutRef.armed
  /\ now >= executionTimeoutRef.deadline
  /\ workerRef' = NoWorker
  /\ FallbackExecute(
       Mid(IF workerRef # NoWorker THEN Terminate(workers, workerRef) ELSE workers,
           [executionTimeoutRef EXCEPT !.armed = FALSE],
           Out("FallbackRunning",
               sanitizeOutput(<<"Execution timed out in worker. Running fallback...">>),
               <<>>, 0),
           result, securityWarnings,
           log \o <<E("outerTimeout")>>, outcomes, patternLastIndex),
       sanitizedCode, runs, canCreate, sendOk)
  /\ UNCHANGED <<now, requests, cleanupTimer, last, callLog, solo,
                 sanitizedCode, runs, dispatchedAt>>
  /\ UNCHANGED callVars

(***************************************************************************)
(* App.jsx: the handlers initializeWorker gives a worker                   *)
(***************************************************************************)
\* worker.onmessage
AppWorkerOnMessage(w) ==
  /\ workers[w].owner = "app"
  /\ workers[w].outbox # <<>>
  /\ Head(workers[w].outbox).type = "message"
  /\ LET ev == Head(workers[w].outbox)
         kind == IF Truthy(ev.data.error) THEN "GuestError" ELSE "Success"
     IN
     /\ workers' = [workers EXCEPT ![w].outbox = Tail(@)]
     /\ isExecuting' = FALSE
     /\ executionTimeoutRef' = NoTimer
     /\ IF Truthy(ev.data.error)
          THEN /\ output' = Out("GuestError",
                                sanitizeOutput(
                                  <<"Error: ">> \o Str(ev.data.error) \o <<"\n">>
                                  \o (IF Truthy(ev.data.output)
                                        THEN Str(ev.data.output) ELSE <<>>)),
                                <<>>, 0)
               /\ result' = <<>>
          ELSE /\ result' = (IF Truthy(ev.data.result)
                               THEN sanitizeOutput(ev.data.result) ELSE <<>>)
               /\ output' = Out("Success",
                                IF Truthy(ev.data.output)
                                  THEN sanitizeOutput(ev.data.output)
                                  ELSE NoOutput, <<>>, 0)
     /\ outcomes' = AddOutcome(outcomes, EndedBy(ev))
     /\ log' = LogIf(EndedBy(ev) = runs, log, <<OutcomeEv(kind, <<>>, 0)>>)
  /\ UNCHANGED <<now, requests, cleanupTimer, last, callLog, solo,
                 securityWarnings, workerRef, sanitizedCode, runs, dispatchedAt>>
  /\ UNCHANGED <<patternLastIndex, vText, vReturned, vCall, directCalls, ignoredRuns>>

\* worker.onerror
AppWorkerOnError(w) ==
  /\ workers[w].owner = "app"
  /\ workers[w].outbox # <<>>
  /\ Head(workers[w].outbox).type = "error"
  /\ LET ev == Head(workers[w].outbox) IN
     /\ workers' = [workers EXCEPT ![w].outbox = Tail(@), ![w].errored = TRUE]
     /\ isExecuting' = FALSE
     /\ executionTimeoutRef' = NoTimer
     /\ output' = Out("WorkerError",
                      sanitizeOutput(<<"Worker Error: ">> \o Str(ev.message)),
                      <<>>, 0)
     /\ result' = <<>>
     /\ outcomes' = AddOutcome(outcomes, EndedBy(ev))
     /\ log' = LogIf(EndedBy(ev) = runs, log, <<OutcomeEv("WorkerError", <<>>, 0)>>)
  /\ UNCHANGED <<now, requests, cleanupTimer, last, callLog, solo,
                 securityWarnings, workerRef, sanitizedCode, runs, dispatchedAt>>
  /\ UNCHANGED <<patternLastIndex, vText, vReturned, vCall, directCalls, ignoredRuns>>

(***************************************************************************)
(* security.js: the handlers executeSecureCode gives its worker, each      *)
(* followed by the then / catch / finally of fallbackExecute               *)
(***************************************************************************)
\* finally { clearExecutionTimeout(); setIsExecuting(false); } after the
\* promise of worker w settled with the given output and result
FallbackSettles(w, out, res, warns) ==
  /\ workers' = Terminate(workers, w)
  /\ workerRef' = RefAfterTerminate(workerRef, w)
  /\ output' = out
  /\ result' = res
  /\ securityWarnings' = warns
  /\ executionTimeoutRef' = NoTimer
  /\ isExecuting' = FALSE
  /\ outcomes' = AddOutcome(outcomes, workers[w].sub)
  /\ log' = LogIf(workers[w].sub = runs, log, <<OutcomeEv(out.kind, <<>>, 0)>>)

\* worker.onmessage of executeSecureCode
ExecWorkerOnMessage(w) ==
  /\ workers[w].owner = "exec"
  /\ workers[w].outbox # <<>>
  /\ Head(workers[w].outbox).type = "message"
  /\ LET ev == Head(workers[w].outbox) IN
     IF workers[w].settled
       THEN /\ workers' = [workers EXCEPT ![w].outbox = Tail(@)]
            /\ UNCHANGED <<output, result, securityWarnings, executionTimeoutRef,
                           isExecuting, outcomes, log, workerRef>>
       ELSE IF Truthy(ev.data.error)
         THEN FallbackSettles(w,
                Out("FallbackError",
                    sanitizeOutput(<<"Error: ">> \o Str(ev.data.error)), <<>>, 0),
                <<>>, securityWarnings)
         ELSE FallbackSettles(w,
                Out("Success",
                    IF Truthy(ev.data.output)
                      THEN sanitizeOutput(Str(ev.data.output)) ELSE NoOutput,
                    <<>>, 0),
                IF Truthy(ev.data.result)
                  THEN sanitizeOutput(Str(ev.data.result)) ELSE <<>>,
                securityWarnings \o validateCode(sanitizedCode).warnings)
  /\ UNCHANGED <<now, requests, cleanupTimer, last, callLog, solo,
                 sanitizedCode, runs, dispatchedAt>>
  /\ UNCHANGED <<patternLastIndex, vText, vReturned, vCall, directCalls, ignoredRuns>>

\* worker.onerror of executeSecureCode
ExecWorkerOnError(w) ==
  /\ workers[w].owner = "exec"
  /\ workers[w].outbox # <<>>
  /\ Head(workers[w].outbox).type = "error"
  /\ IF workers[w].settled
       THEN /\ workers' = [workers EXCEPT ![w].outbox = Tail(@)]
            /\ UNCHANGED <<output, result, securityWarnings, executionTimeoutRef,
                           isExecuting, outcomes, log, workerRef>>
       ELSE FallbackSettles(w,
              Out("FallbackError",
                  sanitizeOutput(<<"Error: ", "Worker Error: ">>
                                 \o Str(Head(workers[w].outbox).message)),
                  <<>>, 0),
              <<>>, securityWarnings)
  /\ UNCHANGED <<now, requests, cleanupTimer, last, callLog, solo,
                 sanitizedCode, runs, dispatchedAt>>
  /\ UNCHANGED <<patternLastIndex, vText, vReturned, vCall, directCalls, ignoredRuns>>

\* the callback of setTimeout(..., resolvedTimeout + 250) of executeSecureCode
ExecTimerFires(w) ==
  /\ workers[w].timer >= 0
  /\ now >= workers[w].timer
  /\ IF workers[w].settled
       THEN /\ workers' = [workers EXCEPT ![w].timer = -1]
            /\ UNCHANGED <<output, result, securityWarnings, executionTimeoutRef,
                           isExecuting, outcomes, log, workerRef>>
       ELSE FallbackSettles(w,
              Out("FallbackError", sanitizeOutput(<<"Error: ">> \o TimeoutMessage),
                  <<>>, 0),
              <<>>, securityWarnings)
  /\ UNCHANGED <<now, requests, cleanupTimer, last, callLog, solo,
                 sanitizedCode, runs, dispatchedAt>>
  /\ UNCHANGED <<patternLastIndex, vText, vReturned, vCall, directCalls, ignoredRuns>>

(***************************************************************************)
(* codeWorker.js: self.onmessage, and the failures of the worker itself    *)
(***************************************************************************)
\* what the worker posts for a request, in order
WorkerReply(req, blocked) ==
  LET g == Guest(req.code) IN
  IF blocked
    THEN <<MessageEvent([error |-> <<"Dangerous code pattern detected">>,
                         output |-> <<>>, result |-> Undefined], req.sub)>>
  ELSE IF g.how = "hangs" THEN <<>>
  ELSE (IF g.how = "returns"
          THEN <<MessageEvent([result |-> g.result, output |-> g.output,
                               error |-> Null], req.sub)>>
          ELSE <<MessageEvent([error |-> g.message, output |-> <<>>,
                               result |-> <<>>], req.sub)>>)
       \o (IF g.late THEN <<ErrorEvent(req.sub, UncaughtMessage)>> ELSE <<>>)

\* setTimeout(..., timeout || 5000) of self.onmessage
InnerTimeout(timeout) == IF timeout = 0 THEN WorkerTimeoutMs ELSE timeout

\* self.onmessage on the oldest queued request.  A guest that never ends
\* keeps the thread: the callback of the timer armed before the evaluation
\* needs that thread, so timeoutId stays armed and is never served; an
\* evaluation that ends clears the timer before the handler returns.  A
\* guest that throws from a microtask makes the worker raise an error event
\* after its reply; after close() the reply may or may not be delivered.
WorkerHandle(w, delivered) ==
  /\ ~ workers[w].failed
  /\ ~ workers[w].hung
  /\ ~ workers[w].closed
  /\ workers[w].inbox # <<>>
  /\ LET req == Head(workers[w].inbox)
         scan == BlockedScan(1, req.code, workers[w].lastIndex)
         g == Guest(req.code)
         closes == ~ scan.blocked /\ g.how # "hangs" /\ g.closes
     IN
     /\ delivered \/ closes
     /\ workers' = [workers EXCEPT
          ![w].started = TRUE,
          ![w].lastIndex = scan.lastIndex,
          ![w].inbox = IF closes THEN <<>> ELSE Tail(@),
          ![w].hung = ~ scan.blocked /\ g.how = "hangs",
          ![w].timeoutId = IF ~ scan.blocked /\ g.how = "hangs"
                             THEN now + InnerTimeout(req.timeout) ELSE -1,
          ![w].armedMs = IF ~ scan.blocked /\ g.how = "hangs"
                           THEN InnerTimeout(req.timeout) ELSE -1,
          ![w].closed = closes,
          ![w].outbox = IF delivered THEN @ \o WorkerReply(req, scan.blocked) ELSE @]
     /\ log' = LogIf(req.sub = runs, log,
                     <<Ev("workerHandles", ~ scan.blocked, <<>>, 0)>>)
  /\ UNCHANGED <<now, requests, cleanupTimer, last, callLog, solo,
                 isExecuting, output, result, securityWarnings, workerRef,
                 executionTimeoutRef, sanitizedCode, runs, outcomes, dispatchedAt>>
  /\ UNCHANGED <<patternLastIndex, vText, vReturned, vCall, directCalls, ignoredRuns>>

\* the worker script cannot be loaded: instead of handling its first request
\* the worker raises an error event, and it never handles a message
WorkerLoadFails(w) ==
  /\ ~ workers[w].started
  /\ ~ workers[w].failed
  /\ workers[w].inbox # <<>>
  /\ workers' = [workers EXCEPT
       ![w].failed = TRUE,
       ![w].outbox = Append(@, ErrorEvent(Head(workers[w].inbox).sub, Undefined))]
  /\ UNCHANGED <<now, requests, cleanupTimer, last, callLog, solo,
                 isExecuting, output, result, securityWarnings, workerRef,
                 executionTimeoutRef, sanitizedCode, runs, log, outcomes,
                 dispatchedAt>>
  /\ UNCHANGED <<patternLastIndex, vText, vReturned, vCall, directCalls, ignoredRuns>>

(***************************************************************************)
(* Time in Spec: the clock moves from one timer deadline to the next; how   *)
(* the limiter behaves between deadlines is SpecRL's matter                *)
(***************************************************************************)
\* the interval callback () => this.cleanup() while App is mounted
CleanupInterval ==
  /\ cleanupTimer
  /\ requests' = CleanupPost(requests, now)
  /\ UNCHANGED <<now, cleanupTimer, last, callLog, solo>>
  /\ UNCHANGED appVars
  /\ UNCHANGED <<patternLastIndex, vText, vReturned, vCall, directCalls, ignoredRuns>>

TimerTick ==
  /\ PendingDeadlines # {}
  /\ \A d \in PendingDeadlines : now < d
  /\ now' = CHOOSE d \in PendingDeadlines : \A e \in PendingDeadlines : d <= e
  /\ UNCHANGED <<requests, cleanupTimer, last, callLog, solo>>
  /\ UNCHANGED appVars
  /\ UNCHANGED <<patternLastIndex, vText, vReturned, vCall, directCalls, ignoredRuns>>

\* whether new Worker(...) succeeds, in initializeWorker and in
\* executeSecureCode, and whether postMessage does: an environment's answer
\* is only drawn where the code asks for it
CanCreate == IF ~ isExecuting /\ workerRef = NoWorker THEN BOOLEAN ELSE {TRUE}
CanCreateExec(canCreate) ==
  IF ~ isExecuting /\ workerRef = NoWorker /\ ~ canCreate THEN BOOLEAN ELSE {TRUE}
CanSend(canCreate) == IF canCreate THEN BOOLEAN ELSE {TRUE}

Next ==
  \/ TimerTick
  \/ CleanupInterval
  \/ \E code \in Codes : \E canCreate \in CanCreate :
       \E canCreateExec \in CanCreateExec(canCreate) : \E sendOk \in BOOLEAN :
         RunCode(code, canCreate, sendOk, canCreateExec)
  \/ \E canCreate \in BOOLEAN : \E sendOk \in CanSend(canCreate) :
       OuterTimeoutFires(canCreate, sendOk)
  \/ \E w \in 1..Len(workers) : AppWorkerOnMessage(w)
  \/ \E w \in 1..Len(workers) : AppWorkerOnError(w)
  \/ \E w \in 1..Len(workers) : ExecWorkerOnMessage(w)
  \/ \E w \in 1..Len(workers) : ExecWorkerOnError(w)
  \/ \E w \in 1..Len(workers) : ExecTimerFires(w)
  \/ \E w \in 1..Len(workers) : \E delivered \in BOOLEAN : WorkerHandle(w, delivered)
  \/ \E w \in 1..Len(workers) : WorkerLoadFails(w)

Spec == Init /\ [][Next]_vars


(***************************************************************************)
(* SpecLive: the application with a user who may ask for a run at any      *)
(* time, also while a submission is executing, and timers that fire: a     *)
(* callback of setTimeout that is due is run, and the clock reaches the    *)
(* next deadline                                                           *)
(***************************************************************************)
\* the texts the user submits in SpecLive: a guest that answers, one that
\* never ends, one that throws later, a text validateCode rejects, and that
\* text with a null byte in the middle of its call
LiveCodes ==
  {<<LogMarkup>>, <<TrueLoop>>, <<LateThrow>>, <<EvalCall>>, <<EvalNul>>}

NextLive ==
  \/ TimerTick
  \/ RunCodeWhileExecuting
  \/ \E code \in LiveCodes : \E canCreate \in CanCreate :
       \E canCreateExec \in CanCreateExec(canCreate) : \E sendOk \in BOOLEAN :
         runs < MaxLiveRuns /\ RunCode(code, canCreate, sendOk, canCreateExec)
  \/ \E canCreate \in BOOLEAN : \E sendOk \in CanSend(canCreate) :
       OuterTimeoutFires(canCreate, sendOk)
  \/ \E w \in 1..Len(workers) : AppWorkerOnMessage(w)
  \/ \E w \in 1..Len(workers) : AppWorkerOnError(w)
  \/ \E w \in 1..Len(workers) : ExecWorkerOnMessage(w)
  \/ \E w \in 1..Len(workers) : ExecWorkerOnError(w)
  \/ \E w \in 1..Len(workers) : ExecTimerFires(w)
  \/ \E w \in 1..Len(workers) : \E delivered \in BOOLEAN : WorkerHandle(w, delivered)
  \/ \E w \in 1..Len(workers) : WorkerLoadFails(w)

\* the timer of runCode is armed and its delay has passed: exactly then
\* OuterTimeoutFires can be taken, and taking it disarms the timer
OuterTimerDue ==
  executionTimeoutRef.armed /\ now >= executionTimeoutRef.deadline

\* the timers fire: the clock reaches the next deadline, a due timer of
\* executeSecureCode runs its callback, and the timer of runCode does not
\* stay due for ever, which is weak fairness of OuterTimeoutFires
TimersFire ==
  /\ WF_vars(TimerTick)
  /\ WF_vars(\E w \in 1..Len(workers) : ExecTimerFires(w))
  /\ []<>(~ OuterTimerDue)

SpecLive == Init /\ [][NextLive]_vars /\ TimersFire

(***************************************************************************)
(* SpecE: executeSecureCode called directly, by a caller that keeps the    *)
(* promise; no App is mounted.  The worker of call p carries sub = p.      *)
(***************************************************************************)
\* the texts given to executeSecureCode
DirectCodes == {<<TrueLoop>>, <<LateThrow>>, <<EvalCall>>}

\* the timeout arguments of a call: none, or one number
TimeoutArgs == {<<>>, <<-1>>, <<0>>, <<1>>}

\* the value of the parameter timeout = 5000 for the arguments args
TimeoutParameter(args) == IF args = <<>> THEN DefaultTimeoutMs ELSE args[1]

\* what a caller holds of one call: the arguments it gave, the state of the
\* promise, and how many times resolve or reject was called for it
DirectCall(args, state, settlements) ==
  [requested |-> args, state |-> state, settlements |-> settlements]

\* resolve(...) or reject(...) of the promise of call p
Settle(calls, p, state) ==
  [calls EXCEPT ![p].state = IF @ = "pending" THEN state ELSE @,
                ![p].settlements = @ + 1]

\* a cleanup that leaves the worker running
cleanup_keepsWorker(wkrs, w) ==
  [wkrs EXCEPT ![w].settled = TRUE, ![w].timer = -1]

\* settled = true; clearTimeout(timerId); cleanup(): the worker is terminated
cleanup(wkrs, w) ==
  Terminate([wkrs EXCEPT ![w].settled = TRUE, ![w].timer = -1], w)

\* const promise = executeSecureCode(code, ...args)
ExecuteSecureCodeCall(code, args, canCreate, sendOk) ==
  /\ Len(directCalls) < MaxDirectCalls
  /\ LET p == Len(directCalls) + 1
         x == ExecuteSecureCode(workers, code, TimeoutParameter(args), now,
                                canCreate, sendOk, p, patternLastIndex)
     IN
     /\ workers' = x.workers
     /\ patternLastIndex' = x.lastIndex
     /\ directCalls' = Append(directCalls,
                              IF x.rejected THEN DirectCall(args, "rejected", 1)
                              ELSE DirectCall(args, "pending", 0))
  /\ UNCHANGED rlVars
  /\ UNCHANGED <<isExecuting, output, result, securityWarnings, workerRef,
                 executionTimeoutRef, sanitizedCode, runs, log, outcomes,
                 dispatchedAt, vText, vReturned, vCall, ignoredRuns>>

\* worker.onmessage of executeSecureCode, the promise kept by the caller
PromiseOnMessage(w) ==
  /\ workers[w].owner = "exec"
  /\ workers[w].outbox # <<>>
  /\ Head(workers[w].outbox).type = "message"
  /\ IF workers[w].settled
       THEN /\ workers' = [workers EXCEPT ![w].outbox = Tail(@)]
            /\ UNCHANGED directCalls
       ELSE /\ workers' = cleanup(workers, w)
            /\ directCalls' =
                 Settle(directCalls, workers[w].sub,
                        IF Truthy(Head(workers[w].outbox).data.error)
                          THEN "rejected" ELSE "resolved")
  /\ UNCHANGED rlVars
  /\ UNCHANGED <<isExecuting, output, result, securityWarnings, workerRef,
                 executionTimeoutRef, sanitizedCode, runs, log, outcomes,
                 dispatchedAt, patternLastIndex, vText, vReturned, vCall,
                 ignoredRuns>>

\* worker.onerror of executeSecureCode, the promise kept by the caller
PromiseOnError(w) ==
  /\ workers[w].owner = "exec"
  /\ workers[w].outbox # <<>>
  /\ Head(workers[w].outbox).type = "error"
  /\ IF workers[w].settled
       THEN /\ workers' = [workers EXCEPT ![w].outbox = Tail(@)]
            /\ UNCHANGED directCalls
       ELSE /\ workers' = cleanup(workers, w)
            /\ directCalls' = Settle(directCalls, workers[w].sub, "rejected")
  /\ UNCHANGED rlVars
  /\ UNCHANGED <<isExecuting, output, result, securityWarnings, workerRef,
                 executionTimeoutRef, sanitizedCode, runs, log, outcomes,
                 dispatchedAt, patternLastIndex, vText, vReturned, vCall,
                 ignoredRuns>>

\* the callback of setTimeout(..., resolvedTimeout + 250), the promise kept
\* by the caller
PromiseTimerFires(w) ==
  /\ workers[w].owner = "exec"
  /\ workers[w].timer >= 0
  /\ now >= workers[w].timer
  /\ IF workers[w].settled
       THEN /\ workers' = [workers EXCEPT ![w].timer = -1]
            /\ UNCHANGED directCalls
       ELSE /\ workers' = cleanup(workers, w)
            /\ directCalls' = Settle(directCalls, workers[w].sub, "rejected")
  /\ UNCHANGED rlVars
  /\ UNCHANGED <<isExecuting, output, result, securityWarnings, workerRef,
                 executionTimeoutRef, sanitizedCode, runs, log, outcomes,
                 dispatchedAt, patternLastIndex, vText, vReturned, vCall,
                 ignoredRuns>>

NextE ==
  \/ TimerTick
  \/ \E code \in DirectCodes : \E args \in TimeoutArgs :
       \E canCreate \in BOOLEAN : \E sendOk \in CanSend(canCreate) :
         ExecuteSecureCodeCall(code, args, canCreate, sendOk)
  \/ \E w \in 1..Len(workers) : PromiseOnMessage(w)
  \/ \E w \in 1..Len(workers) : PromiseOnError(w)
  \/ \E w \in 1..Len(workers) : PromiseTimerFires(w)
  \/ \E w \in 1..Len(workers) : \E delivered \in BOOLEAN : WorkerHandle(w, delivered)
  \/ \E w \in 1..Len(workers) : WorkerLoadFails(w)

SpecE == InitRL /\ [][NextE]_vars

(***************************************************************************)
(* SpecV: validateCode called directly on any text, any number of times    *)
(***************************************************************************)
\* the fragments of the texts given to validateCode
Fragments ==
  {LogSum, EvalCall, WindowRef, FetchCall, StorageRef, ProtoAssign, TrueLoop,
   CtorChainAssign}

\* the texts of at most MaxLen fragments
Texts == UNION {[1..n -> Fragments] : n \in 0..MaxLen}

\* validateCode(code)
ValidateCode(code) ==
  /\ vText' = code
  /\ vReturned' = Returned(ValidateCall(code, patternLastIndex))
  /\ patternLastIndex' = ValidateCall(code, patternLastIndex).lastIndex
  /\ vCall' = (IF vCall # "none" /\ code = vText THEN "repeat" ELSE "other")
  /\ UNCHANGED <<directCalls, ignoredRuns>>
  /\ UNCHANGED rlVars
  /\ UNCHANGED appVars

NextV == \E code \in Texts : ValidateCode(code)

SpecV == InitRL /\ [][NextV]_vars

(***************************************************************************)
(* Properties of the rate limiter (checked under SpecRL)                   *)
(***************************************************************************)
\* the timestamps of seq that are less than windowMs old at time t, in order
RECURSIVE InWindow(_, _)
InWindow(seq, t) ==
  IF seq = <<>> THEN <<>>
  ELSE IF t - Head(seq) < windowMs
         THEN <<Head(seq)>> \o InWindow(Tail(seq), t)
         ELSE InWindow(Tail(seq), t)

\* how many of the timestamps of seq are less than windowMs old at time t
CountInWindow(seq, t) == Cardinality({k \in 1..Len(seq) : t - seq[k] < windowMs})

NonDecreasing(seq) == \A i, j \in 1..Len(seq) : i <= j => seq[i] <= seq[j]

\* the calls i..j of a call log that returned true
Granted(calls, i, j) == {k \in i..j : calls[k].ret}

\* the identifiers other than id are stored in m2 exactly as in m1
OthersUntouched(m1, m2, id) ==
  \A x \in Identifiers \ {id} :
    /\ (x \in DOMAIN m2) = (x \in DOMAIN m1)
    /\ MapGet(m2, x) = MapGet(m1, x)

\* C1: the first maxRequests isAllowed(id) calls made within windowMs of each
\* other return true, the next call made while those timestamps are all inside
\* the window returns false, and a call made when the earliest retained
\* timestamp is at least windowMs old returns true.
C1_SlidingWindowAdmission ==
  /\ \A id \in Identifiers : \A k \in 1..Len(callLog[id]) :
       (k <= maxRequests /\ callLog[id][k].t - callLog[id][1].t < windowMs)
         => callLog[id][k].ret
  /\ \A id \in Identifiers :
       (/\ Len(callLog[id]) >= maxRequests + 1
        /\ callLog[id][maxRequests + 1].t - callLog[id][1].t < windowMs)
         => ~ callLog[id][maxRequests + 1].ret
  /\ (/\ last.op = "isAllowed"
      /\ Len(MapGet(last.before, last.id)) > 0
      /\ last.at - MapGet(last.before, last.id)[1] >= windowMs)
       => last.allowed

\* C1 witness: one identifier was admitted maxRequests times and then denied
\* in the same window, and another one, full before, is admitted again once
\* its earliest timestamp has left the window.
C1_Witness ==
  /\ \E id \in Identifiers :
       /\ Len(callLog[id]) = maxRequests + 1
       /\ \A k \in 1..maxRequests : callLog[id][k].ret
       /\ ~ callLog[id][maxRequests + 1].ret
  /\ last.op = "isAllowed"
  /\ last.allowed
  /\ Len(MapGet(last.before, last.id)) = maxRequests
  /\ last.at - MapGet(last.before, last.id)[1] >= windowMs

\* C2: every stored timestamp sequence is non-decreasing and has at most
\* maxRequests entries, and among the isAllowed calls of one identifier no
\* more than maxRequests return true within a span shorter than windowMs.
C2_BoundedSortedRecords ==
  /\ \A id \in DOMAIN requests :
       /\ NonDecreasing(requests[id])
       /\ Len(requests[id]) <= maxRequests
  /\ \A id \in Identifiers : \A i, j \in 1..Len(callLog[id]) :
       (i <= j /\ callLog[id][j].t - callLog[id][i].t < windowMs)
         => Cardinality(Granted(callLog[id], i, j)) <= maxRequests

\* C2 witness: a full record holding two different timestamps, after a call
\* of the same identifier was denied.
C2_Witness ==
  \E id \in DOMAIN requests :
    /\ Len(requests[id]) = maxRequests
    /\ requests[id][1] < requests[id][maxRequests]
    /\ \E k \in 1..Len(callLog[id]) : ~ callLog[id][k].ret

\* C3: what the limiter stores for an identifier, and what isAllowed and
\* getRemaining return for it, are what a limiter that never received the
\* calls on the other identifiers stores and returns.
C3_IdentifiersIndependent ==
  /\ \A id \in Identifiers :
       /\ (id \in DOMAIN requests) = (id \in DOMAIN solo[id])
       /\ MapGet(requests, id) = MapGet(solo[id], id)
  /\ last.op = "isAllowed" => last.allowed = last.soloAllowed
  /\ last.op = "getRemaining" => last.remaining = last.soloRemaining

\* C3 witness: an identifier with a stored record is admitted after another
\* identifier was denied and holds a full record.
C3_Witness ==
  /\ last.op = "isAllowed"
  /\ last.allowed
  /\ Len(MapGet(last.before, last.id)) > 0
  /\ \E other \in Identifiers \ {last.id} :
       /\ Len(MapGet(requests, other)) = maxRequests
       /\ \E k \in 1..Len(callLog[other]) : ~ callLog[other][k].ret

\* C4 as stated: a denied isAllowed(id) leaves the whole map as it was, and an
\* admitted one appends the current time to the sequence id had before the
\* call and touches no other identifier.
C4_AppendsToStoredSequence ==
  last.op = "isAllowed" =>
    IF last.allowed
      THEN /\ last.id \in DOMAIN requests
           /\ requests[last.id] = Append(MapGet(last.before, last.id), last.at)
           /\ OthersUntouched(last.before, requests, last.id)
      ELSE requests = last.before

\* C4 amended: a denied isAllowed(id) leaves the whole map as it was, and an
\* admitted one replaces the sequence of id by its timestamps still inside
\* the window followed by the current time, and touches no other identifier.
C4_AppendsToPrunedSequence ==
  last.op = "isAllowed" =>
    IF last.allowed
      THEN /\ last.id \in DOMAIN requests
           /\ requests[last.id] =
                Append(InWindow(MapGet(last.before, last.id), last.at), last.at)
           /\ OthersUntouched(last.before, requests, last.id)
      ELSE requests = last.before

\* C4 witness: an admitted call dropped an expired timestamp and kept one,
\* while another identifier holds a record.
C4_Witness ==
  /\ last.op = "isAllowed"
  /\ last.allowed
  /\ Len(InWindow(MapGet(last.before, last.id), last.at)) > 0
  /\ Len(InWindow(MapGet(last.before, last.id), last.at))
       < Len(MapGet(last.before, last.id))
  /\ \E other \in Identifiers \ {last.id} : other \in DOMAIN requests

\* C5: getRemaining(id) returns maxRequests minus the number of the stored
\* timestamps of id inside the window, a value in 0..maxRequests, changes
\* nothing, and is positive exactly when isAllowed(id) would return true.
C5_GetRemainingPure ==
  last.op = "getRemaining" =>
    /\ last.remaining \in 0..maxRequests
    /\ last.remaining =
         maxRequests - CountInWindow(MapGet(last.before, last.id), last.at)
    /\ requests = last.before
    /\ (last.remaining > 0) = IsAllowedCall(last.before, last.id, last.at).ret

\* C5 witness: getRemaining on a record holding an expired timestamp and one
\* still inside the window.
C5_Witness ==
  /\ last.op = "getRemaining"
  /\ last.remaining > 0
  /\ last.remaining < maxRequests
  /\ Len(MapGet(last.before, last.id)) >
       CountInWindow(MapGet(last.before, last.id), last.at)

\* C6: after cleanup() the map holds exactly the identifiers that had a
\* timestamp inside the window, each with exactly its timestamps inside the
\* window, and isAllowed and getRemaining return what they did before.
C6_CleanupKeepsLiveOnly ==
  last.op = "cleanup" =>
    /\ DOMAIN requests =
         {id \in DOMAIN last.before : CountInWindow(last.before[id], last.at) > 0}
    /\ \A id \in DOMAIN requests :
         requests[id] = InWindow(last.before[id], last.at)
    /\ \A id \in Identifiers :
         /\ IsAllowedCall(requests, id, last.at).ret
              = IsAllowedCall(last.before, id, last.at).ret
         /\ GetRemainingCall(requests, id, last.at).ret
              = GetRemainingCall(last.before, id, last.at).ret

\* C6 witness: one cleanup removed an identifier and shortened another.
C6_Witness ==
  /\ last.op = "cleanup"
  /\ \E id \in DOMAIN last.before : id \notin DOMAIN requests
  /\ \E id \in DOMAIN requests : Len(requests[id]) < Len(last.before[id])

(***************************************************************************)
(* Properties of runCode (checked under Spec)                              *)
(***************************************************************************)
\* the steps of a submission that attempt an execution
ExecutionSteps ==
  {"armOuterTimer", "initializeWorker", "postMessage", "fallbackExecute",
   "executeSecureCode", "validateAgain", "newWorker", "armExecTimer",
   "postMessageExec", "workerHandles"}

\* the positions of the steps called name in the log of the latest submission
Positions(name) == {i \in 1..Len(log) : log[i].ev = name}

\* C7: in every run of runCode the rate-gate check comes before validation and
\* validation before any execution attempt; when isAllowed returned false the
\* run consists of the check, the reading of the remaining quota and a
\* RateLimitExceeded outcome carrying that quota, with no validation, dispatch
\* or fallback.
C7_GateBeforeValidationBeforeExecution ==
  runs > 0 =>
    /\ Positions("isAllowed") = {1}
    /\ \A i \in Positions("validateCode") : i = 2 /\ log[1].ok
    /\ \A i \in 1..Len(log) :
         log[i].ev \in ExecutionSteps
           => /\ i > 2
              /\ log[1].ok
              /\ log[2].ev = "validateCode"
    /\ ~ log[1].ok
         => /\ Len(log) = 3
            /\ log[2].ev = "getRemaining"
            /\ log[3] = OutcomeEv("RateLimitExceeded", <<>>, log[2].n)
            /\ log[2].n = 0              \* nothing is left when the gate refuses
            /\ outcomes[runs] >= 1

\* C7 witness: the latest submission, made when earlier ones had used up the
\* quota of the window, was refused by the rate gate.
C7_Witness ==
  /\ runs = maxRequests + 1
  /\ ~ log[1].ok
  /\ log[3].ev = "RateLimitExceeded"
  /\ output.kind = "RateLimitExceeded"
  /\ Len(MapGet(requests, userIdentifier)) = maxRequests

\* C8: when validateCode reports the text invalid the run consists of the gate
\* check, the validation and a ValidationFailed outcome carrying all the
\* errors of the validation: nothing is posted to a worker, no timer is armed,
\* no worker is created and no worker evaluates the text.
C8_InvalidTextStopsTheRun ==
  (runs > 0 /\ \E i \in Positions("validateCode") : ~ log[i].ok)
    => /\ Len(log) = 3
       /\ log[1] = Ev("isAllowed", TRUE, <<>>, 0)
       /\ log[2].ev = "validateCode"
       /\ log[2].errors # <<>>
       /\ log[3] = OutcomeEv("ValidationFailed", log[2].errors, 0)
       /\ outcomes[runs] >= 1
       /\ dispatchedAt = -1

\* C8 witness: the latest submission called eval and was rejected with both
\* errors of the validator, while the worker created at mount is idle.
C8_Witness ==
  /\ runs > 0
  /\ Len(log) = 3
  /\ log[3].ev = "ValidationFailed"
  /\ Len(log[3].errors) = 4
  /\ output = Out("ValidationFailed",
                  sanitizeOutput(ValidationFailedText \o log[3].errors),
                  log[3].errors, 0)
  /\ ~ isExecuting
  /\ ~ executionTimeoutRef.set
  /\ workerRef # NoWorker
  /\ workers[workerRef].inbox = <<>>

\* C9: every submission gets exactly one terminal outcome, whatever the order
\* of the worker's response, the worker's error event, the outer timeout and
\* the fallback's completion: never two, and one as soon as the submission is
\* no longer executing.
C9_ExactlyOneTerminalOutcome ==
  \A k \in 1..Len(outcomes) :
    /\ outcomes[k] <= 1
    /\ (k < runs \/ ~ isExecuting) => outcomes[k] = 1

\* C10: a submitted text that never terminates, once a worker evaluates it,
\* has its terminal timeout outcome no later than OuterTimeoutMs after the
\* dispatch, and the submission is no longer executing after that time.
C10_InfiniteLoopTimesOutWithinOuterTimeout ==
  (/\ runs > 0
   /\ dispatchedAt >= 0
   /\ Guest(sanitizedCode).how = "hangs"
   /\ Positions("workerHandles") # {}
   /\ now > dispatchedAt + OuterTimeoutMs)
    => /\ ~ isExecuting
       /\ output.kind = "FallbackError"
       /\ output.text = <<"Error: ">> \o TimeoutMessage

\* C11: whenever fallbackExecute runs for a submission (the outer timeout
\* fired first, or no worker could be created) it evaluates the text itself:
\* no worker is created for it, it does not fail for want of a worker, and
\* its result is there, as the terminal outcome, when it returns.
C11_FallbackEvaluatesOnOwnThread ==
  (runs > 0 /\ Positions("fallbackExecute") # {})
    => /\ Positions("newWorker") = {}
       /\ Positions("postMessageExec") = {}
       /\ output.text # <<"Error: ", "Secure worker not available: ">> \o WorkerCtorError
       /\ ~ isExecuting
       /\ outcomes[runs] >= 1

\* C12: a submission whose postMessage to the worker threw is treated like one
\* for which no worker could be created: fallbackExecute runs for it, and it
\* is not ended by a failure message of the send itself.
C12_SendFailureRunsFallback ==
  (runs > 0 /\ \E i \in Positions("postMessage") : ~ log[i].ok)
    => /\ Positions("fallbackExecute") # {}
       /\ Positions("WorkerFailed") = {}

\* C13: a worker of App on which an anomaly occurred (the outer timeout, a
\* send that threw, its error event) is terminated and no longer referenced,
\* so that the next submission goes to a new worker: the only worker of App
\* alive is the one workerRef refers to, and its onerror has never run.
C13_AnomalousWorkerDiscarded ==
  \A w \in 1..Len(workers) :
    workers[w].owner = "app" => (w = workerRef /\ ~ workers[w].errored)

\* the two shapes a response of the worker may have
SuccessShape(data) ==
  /\ data.error = Null
  /\ data.result \notin {Null, Undefined}
  /\ data.output \notin {Null, Undefined}

FailureShape(data) ==
  /\ data.error \notin {Null, Undefined}
  /\ data.result = <<>>
  /\ data.output \notin {Null, Undefined}

\* the responses to submission k waiting in the outbox of worker w
ResponsesTo(w, k) ==
  {i \in 1..Len(workers[w].outbox) :
     workers[w].outbox[i].type = "message" /\ workers[w].outbox[i].sub = k}

\* C14: every response message a worker sends is either a success {result,
\* output, error: null} or a failure {result: '', output, error: text}, on
\* every path, and no request gets two responses.
C14_ResponseShapes ==
  \A w \in 1..Len(workers) :
    /\ \A i \in 1..Len(workers[w].outbox) :
         workers[w].outbox[i].type = "message"
           => \/ SuccessShape(workers[w].outbox[i].data)
              \/ FailureShape(workers[w].outbox[i].data)
    /\ \A k \in 1..runs : Cardinality(ResponsesTo(w, k)) <= 1

\* C15: a worker whose evaluation has not completed when the time given with
\* the request has elapsed has itself sent the response 'Execution timeout
\* exceeded'.
C15_WorkerTimerAnswersForHungEvaluation ==
  \A w \in 1..Len(workers) :
    (/\ workers[w].hung
     /\ workers[w].timeoutId >= 0
     /\ now >= workers[w].timeoutId)
      => \E i \in 1..Len(workers[w].outbox) :
           /\ workers[w].outbox[i].type = "message"
           /\ workers[w].outbox[i].data.error = <<"Execution timeout exceeded">>

\* a signature of the worker's deny-list occurs in the text
HasBlockedSignature(code) ==
  \E k \in 1..Len(BLOCKED_PATTERNS) : \E i \in 1..Len(code) :
    BlockedMatches(BLOCKED_PATTERNS[k], code[i])

\* C16: on every request, also the 2nd, 3rd, ... one sent to a reused worker,
\* the worker's deny-list scan starts from fresh matcher state: a text with a
\* signature of the deny-list is answered with an error and never evaluated.
C16_WorkerScanBlocksEveryTime ==
  \A i \in Positions("workerHandles") :
    log[i].ok => ~ HasBlockedSignature(sanitizedCode)

(***************************************************************************)
(* Properties of validateCode (checked under SpecV)                        *)
(***************************************************************************)
\* the fragments that are an instance of a deny-listed construct: a dynamic
\* evaluation call, an ambient-global reference, a network call, a storage
\* reference, a prototype-mutation assignment
DenyListed == {EvalCall, WindowRef, FetchCall, StorageRef, ProtoAssign}

HasDenyListed(code) == \E i \in 1..Len(code) : code[i] \in DenyListed

\* C17: validateCode is deterministic across calls: whatever texts it was
\* called on before, and however often, a call returns for its text the valid
\* flag, the ordered errors and the ordered warnings that a call on freshly
\* loaded patterns returns for that text.
C17_ValidateCodeDeterministic ==
  vCall # "none" => vReturned = validateCode(vText)

\* C17 witness: the same dangerous text of full length was validated twice in
\* a row, the patterns having matched (their lastIndex is not the fresh one).
C17_Witness ==
  /\ vCall = "repeat"
  /\ Len(vText) = MaxLen
  /\ ~ vReturned.valid
  /\ patternLastIndex # FreshPatternIndex

C19_CleanTextValid ==
  (vCall # "none" /\ ~ HasDenyListed(vText)) => vReturned.valid

\* C19 amended: every non-empty text without a deny-listed construct is
\* returned valid, with or without warnings; the empty text is returned
\* invalid with the one error 'Code must be a non-empty string'.
C19_NonEmptyCleanTextValid ==
  /\ (vCall # "none" /\ vText # <<>> /\ ~ HasDenyListed(vText))
       => (vReturned.valid /\ vReturned.errors = <<>>)
  /\ (vCall # "none" /\ vText = <<>>)
       => (/\ ~ vReturned.valid
           /\ vReturned.errors = <<"Code must be a non-empty string">>)

\* C19 witness: a text that only triggers a warning was returned valid.
C19_Witness ==
  /\ vCall # "none"
  /\ vText # <<>>
  /\ ~ HasDenyListed(vText)
  /\ vReturned.warnings # <<>>
  /\ vReturned.valid

(***************************************************************************)
(* Output escaping                                                         *)
(***************************************************************************)
\* the pieces the strings given to sanitizeOutput are made of: the five
\* characters it replaces, the rest of an entity, and a plain word
Pieces == Special \cup {"amp;", "b"}

\* the strings of at most MaxLen pieces
OutputTexts == UNION {[1..n -> Pieces] : n \in 0..MaxLen}

\* what may follow an & in escaped text
EntityTails == {"amp;", "lt;", "gt;", "quot;", "#039;"}

\* no < > " ', and every & begins &amp; &lt; &gt; &quot; or &#039;
Escaped(text) ==
  \A i \in 1..Len(text) :
    /\ text[i] \notin {"<", ">", "\"", "'"}
    /\ text[i] = "&" => (i < Len(text) /\ text[i + 1] \in EntityTails)

\* sanitizeOutput escapes every string of OutputTexts
SanitizeOutputEscapes == \A s \in OutputTexts : Escaped(sanitizeOutput(s))

\* C20: for any text s, sanitizeOutput(s) contains none of < > " ' and every
\* & in it begins one of the entities &amp; &lt; &gt; &quot; &#039;, and the
\* output and the result that runCode and its handlers hand to the caller
\* (the error messages are outputs) are escaped in this way.
C20_OutputIsEscaped ==
  /\ SanitizeOutputEscapes
  /\ Escaped(output.text)
  /\ Escaped(result)

\* C20 witness: the guest printed <b>&"' and returned <i>, and the caller got
\* both with every one of the five characters replaced by its entity.
C20_Witness ==
  /\ runs > 0
  /\ sanitizedCode = <<LogMarkup>>
  /\ output.kind = "Success"
  /\ output.text = <<"&", "lt;", "b", "&", "gt;", "&", "amp;", "&", "quot;",
                     "&", "#039;">>
  /\ result = <<"&", "lt;", "i", "&", "gt;">>

(***************************************************************************)
(* executeSecureCode: the timeout that is sent and armed                   *)
(***************************************************************************)
\* max(0, requested), and 0 for a timeout that is absent
Clamped(args) == IF args = <<>> THEN 0 ELSE Max(0, args[1])

\* C21: the timeout executeSecureCode sends to the worker, and the timeout
\* the worker arms for the evaluation, is max(0, requested), and is 0 when
\* the requested timeout is negative, zero or absent
C21_TimeoutClampedToZero ==
  \A w \in 1..Len(workers) :
    workers[w].sub \in 1..Len(directCalls) =>
      LET want == Clamped(directCalls[workers[w].sub].requested) IN
      /\ \A i \in 1..Len(workers[w].inbox) : workers[w].inbox[i].timeout = want
      /\ workers[w].armedMs >= 0 => workers[w].armedMs = want

(***************************************************************************)
(* The names a guest reaches                                               *)
(***************************************************************************)
\* a worker evaluated the text of the current submission
Evaluated ==
  \E i \in 1..Len(log) : log[i].ev = "workerHandles" /\ log[i].ok

\* C22: a guest resolves only the names bound in the safe context: while it
\* is evaluated, in the worker of the run or in the one of the fallback, no
\* identifier without a binding in the context is reached
C22_OnlyContextNamesReachable ==
  Evaluated => Guest(sanitizedCode).reached \subseteq ContextNames

(***************************************************************************)
(* validateCode and the constructor chain                                  *)
(***************************************************************************)
\* the text assigns through <expr>.constructor.prototype.<name> = ...
AssignsThroughConstructor(code) ==
  \E i \in 1..Len(code) : code[i] = CtorChainAssign

\* C23: validateCode returns valid = false for every text that assigns
\* through <expr>.constructor.prototype.<name> = ...
C23_ConstructorChainRejected ==
  (vCall # "none" /\ AssignsThroughConstructor(vText)) => ~ vReturned.valid

(***************************************************************************)
(* A submission ends                                                       *)
(***************************************************************************)
\* C24: whatever the worker does (it answers, throws, hangs, cannot be
\* created), once the timers fire the isExecuting flag becomes false again,
\* so that a later submission can be started
C24_AlwaysBackToIdle == isExecuting ~> ~ isExecuting

\* a submission whose worker hung was ended by the timer of the fallback
C24_Witness ==
  /\ ~ isExecuting
  /\ runs >= 1
  /\ sanitizedCode = <<TrueLoop>>
  /\ output.kind = "FallbackError"
  /\ \E i \in 1..Len(log) : log[i].ev = "outerTimeout"

(***************************************************************************)
(* The promise of executeSecureCode                                        *)
(***************************************************************************)
\* the workers of call p that are not terminated
WorkersOf(p) == {w \in 1..Len(workers) : workers[w].sub = p}

\* C25: the promise executeSecureCode returns settles once: resolve or
\* reject is called at most once for it, by the first of the worker's
\* message, its error event, the timer and a failed send; from then on the
\* worker is terminated and the timer cancelled, so that no later event is
\* served; until then exactly its one worker runs, with the timer armed
C25_PromiseSettlesOnce ==
  \A p \in 1..Len(directCalls) :
    /\ directCalls[p].settlements <= 1
    /\ directCalls[p].state = "pending" <=> directCalls[p].settlements = 0
    /\ directCalls[p].state # "pending" => WorkersOf(p) = {}
    /\ directCalls[p].state = "pending" =>
         /\ Cardinality(WorkersOf(p)) = 1
         /\ \A w \in WorkersOf(p) : ~ workers[w].settled /\ workers[w].timer >= 0

\* one promise was resolved by the worker's message and one rejected, each
\* settled once, and no worker is left
C25_Witness ==
  /\ \E p \in 1..Len(directCalls) :
       directCalls[p].state = "resolved" /\ directCalls[p].settlements = 1
  /\ \E p \in 1..Len(directCalls) :
       directCalls[p].state = "rejected" /\ directCalls[p].settlements = 1
  /\ now > 0
  /\ workers = <<>>

(***************************************************************************)
(* The text that is dispatched                                             *)
(***************************************************************************)
\* C26: the text runCode dispatches, sanitizeCode of a submitted text that
\* validateCode accepted, is itself accepted by validateCode: no request on
\* its way to a worker carries a text with a deny-listed signature
C26_DispatchedTextPassesValidation ==
  \A w \in 1..Len(workers) : \A i \in 1..Len(workers[w].inbox) :
    validateCode(workers[w].inbox[i].code).valid

(***************************************************************************)
(* The fallback of a submission                                            *)
(***************************************************************************)
\* the run found no worker and could not create one: it awaits the fallback
NoUnitPath ==
  \E i \in Positions("initializeWorker") : ~ log[i].ok

\* C27: within one submission fallbackExecute is started at most once: the
\* timer of runCode does not fire while or after a fallback started on the
\* no-worker path runs, and when it fires it starts exactly one fallback
C27_FallbackAtMostOnce ==
  /\ Cardinality(Positions("fallbackExecute")) <= 1
  /\ NoUnitPath => Positions("outerTimeout") = {}
  /\ \A i \in Positions("outerTimeout") :
       Positions("fallbackExecute") = {i + 1}

\* a run with no worker started the fallback directly, the guest never ended,
\* and the timer of executeSecureCode ended the submission
C27_Witness ==
  /\ NoUnitPath
  /\ Cardinality(Positions("fallbackExecute")) = 1
  /\ sanitizedCode = <<TrueLoop>>
  /\ output = Out("FallbackError", sanitizeOutput(<<"Error: ">> \o TimeoutMessage),
                  <<>>, 0)
  /\ ~ isExecuting

(***************************************************************************)
(* The workers that are alive                                              *)
(***************************************************************************)
\* the orchestrator still refers to worker w: workerRef.current holds it, or
\* it is the worker of a promise of executeSecureCode that is not settled
Referenced(w) ==
  \/ workerRef = w
  \/ workers[w].owner = "exec" /\ ~ workers[w].settled

\* C28: at every moment at most one worker that App or executeSecureCode
\* created is alive, created and not terminated, and every worker the
\* orchestrator does not refer to any more has been terminated
C28_AtMostOneWorkerAlive ==
  /\ Len(workers) <= 1
  /\ \A w \in 1..Len(workers) : Referenced(w)

(***************************************************************************)
(* The quota a run consumes                                                *)
(***************************************************************************)
\* the requests of the user that count at time t, and what getRemaining
\* would return then
Used(reqs, t) == Len(ValidRequests(MapGet(reqs, userIdentifier), t))
Remaining(reqs, t) == GetRemainingCall(reqs, userIdentifier, t).ret

\* a step that is a run of runCode, and whether isAllowed admitted it
RunStep == runs' # runs
Admitted == log'[1].ev = "isAllowed" /\ log'[1].ok

\* what a step does to the quota: a run that isAllowed admitted takes one
\* unit, a run it denied takes none, and no other step takes or returns one
QuotaStep ==
  /\ (RunStep /\ Admitted) =>
       (/\ Used(requests', now') = Used(requests, now) + 1
        /\ Remaining(requests', now') = Remaining(requests, now) - 1)
  /\ (RunStep /\ ~ Admitted) =>
       (/\ Used(requests', now') = Used(requests, now)
        /\ Remaining(requests, now) = 0
        /\ Remaining(requests', now') = 0)
  /\ (~ RunStep /\ now' = now) =>
       (Used(requests', now') = Used(requests, now))

\* C29: a run that passes the rate gate consumes exactly one unit of the
\* quota whatever it ends with, a run the gate denies consumes none, and
\* nothing else consumes or gives back a unit; so as long as no time has
\* passed getRemaining returns maxRequests minus the number of admitted runs
C29_AdmittedRunConsumesOneUnit ==
  /\ [](now = 0 => Remaining(requests, now) = Max(0, maxRequests - runs))
  /\ [][QuotaStep]_vars

\* the quota was used up by runs that ended differently, one of them by the
\* fallback, and the next run was denied without consuming anything
C29_Witness ==
  /\ runs = maxRequests + 1
  /\ output.kind = "RateLimitExceeded"
  /\ output.remaining = 0
  /\ Used(requests, now) = maxRequests
  /\ \A sub \in 1..runs : outcomes[sub] >= 1

(***************************************************************************)
(* A run request during a submission                                       *)
(***************************************************************************)
\* a step that is a call of runCode which returned at once
IgnoredStep == ignoredRuns' # ignoredRuns

\* what a call of runCode does while isExecuting is set: it is not a run,
\* and it leaves the quota, the validator, the timer, the workers and their
\* queues, and the output and outcomes of the submission as they are
RunRequestStep ==
  (isExecuting /\ (RunStep \/ IgnoredStep)) =>
    (/\ ~ RunStep
     /\ UNCHANGED <<requests, patternLastIndex, executionTimeoutRef, workers,
                    workerRef, isExecuting, output, result, securityWarnings,
                    sanitizedCode, log, outcomes, dispatchedAt, now>>)

\* C30: a run request that arrives while isExecuting is true, also while the
\* fallback runs, is ignored entirely: it consumes no quota, validates
\* nothing, arms no timer, sends no message and leaves the outcome of the
\* submission in progress alone
C30_RunRequestIgnoredWhileExecuting == [][RunRequestStep]_vars

\* a run request was turned away while the fallback of the first submission,
\* started because there is no worker, was running
C30_Witness ==
  /\ ignoredRuns = 1
  /\ runs = 1
  /\ isExecuting
  /\ NoUnitPath
  /\ Positions("fallbackExecute") # {}
  /\ \E w \in 1..Len(workers) : workers[w].owner = "exec" /\ workers[w].sub = runs

====
